---- MODULE Spec2Model ----
\* Verification model of data-yaml/seqera-smoke-test:
\*   scripts/post_run_sqs.py  (post-run notifier: fetch, poll, extract, merge, send)
\*   setup-sqs.py             (setup tool: inline-policy check and append)
EXTENDS Integers, Sequences, FiniteSets, TLC

\* ---------------------------------------------------------------------------
\* Bounds of the model and constants of the program
\* ---------------------------------------------------------------------------

\* Clock resolution: ticks per poll interval (the file may appear between polls).
TicksPerInterval == 2

\* wait_for_wrroc_file(..., max_wait_seconds: int = 60)
MaxWaitSeconds == 60

\* check_interval = 0.5  # 500ms
CheckIntervalMs == 500

\* Python's None.  No modelled string value equals this sentinel.
None == "None"

\* ---------------------------------------------------------------------------
\* Dictionaries (Python dict with string keys) as functions on their key set
\* ---------------------------------------------------------------------------

EmptyDict == [k \in {} |-> None]

\* d.get(k)
Get(d, k) == IF k \in DOMAIN d THEN d[k] ELSE None

\* {k: v for k, v in d.items() if v is not None}
DropNone(d) == [k \in {x \in DOMAIN d : d[x] # None} |-> d[k]]

\* d.update(e): keys of e overwrite keys of d
UpdateReplacing(d, e) == e

Update(d, e) == [k \in DOMAIN d \cup DOMAIN e |-> IF k \in DOMAIN e THEN e[k] ELSE d[k]]

\* ---------------------------------------------------------------------------
\* Post-run notifier: environment
\* ---------------------------------------------------------------------------

\* key of the message metadata -> environment variable read for it
EnvVarOf ==
    [ tower_workflow_id       |-> "TOWER_WORKFLOW_ID",
      tower_run_name          |-> "TOWER_RUN_NAME",
      tower_project_id        |-> "TOWER_PROJECT_ID",
      tower_workspace_id      |-> "TOWER_WORKSPACE_ID",
      tower_user_id           |-> "TOWER_USER_ID",
      tower_workflow_status   |-> "TOWER_WORKFLOW_STATUS",
      tower_workflow_start    |-> "TOWER_WORKFLOW_START",
      tower_workflow_complete |-> "TOWER_WORKFLOW_COMPLETE",
      tower_workdir           |-> "TOWER_WORKDIR",
      tower_outdir            |-> "TOWER_OUTDIR",
      tower_pipeline          |-> "TOWER_PIPELINE",
      tower_pipeline_revision |-> "TOWER_PIPELINE_REVISION",
      tower_nextflow_version  |-> "TOWER_NEXTFLOW_VERSION",
      tower_executor          |-> "TOWER_EXECUTOR",
      nextflow_version        |-> "NXF_VER",
      workflow_name           |-> "NXF_WORKFLOW_NAME",
      session_id              |-> "NXF_SESSION_ID" ]

EnvKeys == DOMAIN EnvVarOf

\* os.getenv(name, default) defaults used by build_sqs_message
EnvDefault(k) ==
    CASE k = "tower_workflow_id"     -> "unknown"
      [] k = "tower_run_name"        -> "unknown"
      [] k = "tower_workflow_status" -> "SUCCEEDED"
      [] OTHER                       -> None

EnvNames == {EnvVarOf[k] : k \in EnvKeys} \cup {"TOWER_ACCESS_TOKEN"}

\* Variables whose presence is varied one by one; the rest are set or unset
\* together with TOWER_PROJECT_ID.
VaryingEnv == {"TOWER_ACCESS_TOKEN", "TOWER_WORKFLOW_ID", "TOWER_PROJECT_ID"}

EnvValue(n) ==
    CASE n = "TOWER_ACCESS_TOKEN" -> "tok"
      [] n = "TOWER_WORKFLOW_ID"  -> "wf1"
      [] n = "TOWER_PROJECT_ID"   -> "proj1"
      [] OTHER                    -> "set"

EnvSnapshots ==
    { [n \in EnvNames |->
          IF n \in VaryingEnv
          THEN (IF n \in S THEN EnvValue(n) ELSE None)
          ELSE (IF "TOWER_PROJECT_ID" \in S THEN EnvValue(n) ELSE None)] :
      S \in SUBSET VaryingEnv }

\* os.getenv(name, default)
GetEnv(e, n, default) == IF e[n] = None THEN default ELSE e[n]

\* ---------------------------------------------------------------------------
\* Post-run notifier: the API response (the "workflow" object)
\* ---------------------------------------------------------------------------

\* A JSON object at a nested position: key absent, JSON null, or an object.
Missing(d) == [kind |-> "missing", d |-> d]
Null(d) == [kind |-> "null", d |-> d]
Obj(d) == [kind |-> "dict", d |-> d]

ScalarFields ==
    [ runName |-> "run1", projectName |-> "proj", status |-> "SUCCEEDED",
      sessionId |-> "sess", computeEnvId |-> "ce1", workDir |-> "s3://bucket/work",
      start |-> "t0", complete |-> "t1", duration |-> "42", container |-> "img",
      configText |-> "process.cpus=1" ]

LaunchFields ==
    [ id |-> "l1", pipeline |-> "repo", revision |-> "main" ]

QueueUrl == "https://sqs.example/queue"

ParamsSamples ==
    { Missing(EmptyDict),
      Null(EmptyDict),
      Obj(EmptyDict),
      Obj([outdir |-> "/data/out"]),
      Obj([sqs_queue_url |-> QueueUrl]),
      Obj([sqs_queue_url |-> QueueUrl, outdir |-> ""]),
      Obj([sqs_queue_url |-> QueueUrl, outdir |-> "/data/out"]),
      Obj([sqs_queue_url |-> QueueUrl, outdir |-> "s3://bucket/out",
           sqs_region |-> "eu-west-1"]) }

\* The value fetch_workflow_details returns when it has no data.
NoneWorkflow ==
    [ isNone |-> TRUE, fields |-> EmptyDict, params |-> Missing(EmptyDict),
      launch |-> Missing(EmptyDict), computeEnv |-> Missing(EmptyDict) ]

\* data.get("workflow", {}) of the responses the model considers
WorkflowSamples ==
    { [ isNone |-> FALSE, fields |-> EmptyDict, params |-> p,
        launch |-> Missing(EmptyDict), computeEnv |-> Missing(EmptyDict) ] :
      p \in ParamsSamples }
    \cup
    { [ isNone |-> FALSE, fields |-> ScalarFields, params |-> p,
        launch |-> Obj(LaunchFields), computeEnv |-> ce ] :
      p \in { q \in ParamsSamples : "outdir" \in DOMAIN q.d /\ "sqs_queue_url" \in DOMAIN q.d },
      ce \in { Obj([name |-> "batch"]), Null(EmptyDict) } }

\* Python truthiness of a dict at a nested position
TruthyObj(o) == o.kind = "dict" /\ DOMAIN o.d # {}

\* Python truthiness of a str-or-None
TruthyAlways(v) == TRUE

TruthyStr(v) == v # None /\ v # ""

\* `not workflow_data`: None and the empty dict are both falsy
TruthyWorkflow(w) ==
    /\ ~w.isNone
    /\ \/ DOMAIN w.fields # {}
       \/ w.params.kind # "missing"
       \/ w.launch.kind # "missing"
       \/ w.computeEnv.kind # "missing"

\* HTTP outcomes of urlopen: status 200 with a body, another status, or an error
HttpOutcomes == {"200", "non200", "HTTPError", "URLError", "Exception"}

\* fetch_workflow_details(): the value returned for an environment, an HTTP
\* outcome and (on 200) the decoded "workflow" object
FetchAlwaysRequests(e, http, w) ==
    IF http = "200" THEN w ELSE NoneWorkflow

fetch_workflow_details(e, http, w) ==
    IF e["TOWER_ACCESS_TOKEN"] = None \/ e["TOWER_ACCESS_TOKEN"] = "" THEN NoneWorkflow
    ELSE IF e["TOWER_WORKFLOW_ID"] = None \/ e["TOWER_WORKFLOW_ID"] = "" THEN NoneWorkflow
    ELSE IF http = "200" THEN w
    ELSE NoneWorkflow

\* fetch_workflow_details issues the HTTP request only past the two guards
FetchRequests(e) ==
    TruthyStr(e["TOWER_ACCESS_TOKEN"]) /\ TruthyStr(e["TOWER_WORKFLOW_ID"])

\* extract_api_metadata raises (AttributeError) when computeEnv is JSON null:
\* workflow_data.get("computeEnv", {}).get("name")
ExtractApiRaises(w) == TruthyWorkflow(w) /\ w.computeEnv.kind = "null"

ApiScalarKey ==
    [ api_run_name |-> "runName", api_project_name |-> "projectName",
      api_status |-> "status", api_session_id |-> "sessionId",
      api_compute_env_id |-> "computeEnvId", api_workdir |-> "workDir",
      api_start |-> "start", api_complete |-> "complete",
      api_duration |-> "duration", api_container |-> "container" ]

\* extract_api_metadata(workflow_data), when it does not raise
extract_api_metadata(w) ==
    IF ~TruthyWorkflow(w) THEN EmptyDict
    ELSE
      LET scalars == [k \in DOMAIN ApiScalarKey |-> Get(w.fields, ApiScalarKey[k])]
          config == Get(w.fields, "configText")
          cfg == IF TruthyStr(config) THEN [api_config_text |-> config] ELSE EmptyDict
          launch ==
              IF TruthyObj(w.launch)
              THEN [ api_launch_id |-> Get(w.launch.d, "id"),
                     api_launch_pipeline |-> Get(w.launch.d, "pipeline"),
                     api_launch_revision |-> Get(w.launch.d, "revision"),
                     api_launch_config_profiles |-> Get(w.launch.d, "configProfiles") ]
              ELSE EmptyDict
          cenv == [api_compute_env_name |->
                      IF w.computeEnv.kind = "dict" THEN Get(w.computeEnv.d, "name") ELSE None]
          \* api_params holds the params object itself; it is set only when truthy,
          \* so the None filter never removes it
          params == IF TruthyObj(w.params) THEN [api_params |-> w.params.d] ELSE EmptyDict
      IN Update(DropNone(Update(Update(Update(scalars, cfg), launch), cenv)), params)

\* ---------------------------------------------------------------------------
\* Post-run notifier: the provenance (WRROC) document
\* ---------------------------------------------------------------------------

\* A node of "@graph": a JSON object (its string-valued fields in f, its
\* "author" and "programmingLanguage" values apart) or some other JSON value.
\* A nested value is absent, null, an object, or a value of another type.
Other(d) == [kind |-> "other", d |-> d]

Node(f, author, lang) == [isDict |-> TRUE, f |-> f, author |-> author, lang |-> lang]

NonDictNode == [isDict |-> FALSE, f |-> EmptyDict, author |-> Missing(EmptyDict), lang |-> Missing(EmptyDict)]

RunName == "Nextflow workflow run 7f3a"

\* str.startswith("Nextflow workflow run") on the names the model uses
StartsWithRun(name) == name \in {RunName, "Nextflow workflow run"}

\* str.lstrip("#") on the identifiers the model uses
LStripHash(id) ==
    CASE id = "#run-1" -> "run-1"
      [] id = "##run-2" -> "run-2"
      [] id = "#" -> ""
      [] OTHER -> id

RootNode(author) ==
    Node([id |-> "./", name |-> "crate", datePublished |-> "2025-01-01", license |-> "MIT"],
         author, Missing(EmptyDict))

AuthorNode == Node([id |-> "https://orcid.org/0000", name |-> "Ada"], Missing(EmptyDict), Missing(EmptyDict))

RunNode ==
    Node([id |-> "#run-1", type |-> "CreateAction", name |-> RunName,
          startTime |-> "t0", endTime |-> "t1"], Missing(EmptyDict), Missing(EmptyDict))

\* a CreateAction whose "name" is null
RunNodeNullName ==
    Node([id |-> "#run-1", type |-> "CreateAction", name |-> None,
          startTime |-> "t0", endTime |-> "t1"], Missing(EmptyDict), Missing(EmptyDict))

MainWorkflowNode(lang) ==
    Node([id |-> "main-sqs.nf", runtimePlatform |-> "Nextflow 24"], Missing(EmptyDict), lang)

AuthorRef == Obj([id |-> "https://orcid.org/0000"])

\* json.load outcome and the "@graph" value of the documents the model considers
Doc(json, graphKind, nodes) == [json |-> json, graphKind |-> graphKind, nodes |-> nodes]

NoDoc == Doc("none", "missing", <<>>)

WrrocDocs ==
    { Doc("invalid", "missing", <<>>),
      Doc("nonobject", "missing", <<>>),
      Doc("object", "missing", <<>>),
      Doc("object", "null", <<>>),
      Doc("object", "list", <<>>),
      Doc("object", "list",
          <<RootNode(AuthorRef), AuthorNode, RunNode, MainWorkflowNode(Obj([id |-> "#nextflow"]))>>),
      Doc("object", "list", <<RootNode(AuthorRef), RunNode>>),
      Doc("object", "list", <<RootNode(Other(EmptyDict)), RunNode>>),
      Doc("object", "list", <<RunNode, MainWorkflowNode(Other(EmptyDict))>>),
      Doc("object", "list", <<RootNode(Missing(EmptyDict)), NonDictNode, RunNode>>) }

\* The graphs extract_wrroc_metadata is applied to on its own: each entity
\* absent or present in each of its forms, with or without a value that is
\* not an object between and after the entities.
AuthorValues ==
    { Missing(EmptyDict), AuthorRef, Obj([id |-> "#nobody"]), Obj(EmptyDict),
      Other(EmptyDict), Null(EmptyDict) }

LangValues == { Missing(EmptyDict), Obj([id |-> "#nextflow"]), Other(EmptyDict), Null(EmptyDict) }

OneOrNone(S) == {<<>>} \cup { <<x>> : x \in S }

AllGraphs ==
    { r \o a \o j1 \o w \o m \o j2 :
        r \in OneOrNone({ RootNode(x) : x \in AuthorValues }),
        a \in OneOrNone({AuthorNode}),
        j1 \in OneOrNone({NonDictNode}),
        w \in OneOrNone({RunNode, RunNodeNullName}),
        m \in OneOrNone({ MainWorkflowNode(l) : l \in LangValues }),
        j2 \in OneOrNone({NonDictNode}) }

AllDocs ==
    { Doc("invalid", "missing", <<>>),
      Doc("nonobject", "missing", <<>>),
      Doc("object", "missing", <<>>),
      Doc("object", "null", <<>>) }
    \cup { Doc("object", "list", g) : g \in AllGraphs }

\* e.get(...) on a node that is not an object raises AttributeError
NotDict(n) == ~n.isDict

\* next((e for e in graph if <match>), None), matches being the indices of the
\* nodes that satisfy <match> and raising those at which evaluating <match>
\* raises: the generator stops at the first match, and raises at the first
\* node that is not an object or is in raising, whichever comes first.
\* Returns the index of the match, 0 for None, -1 when the scan raises.
Scan(nodes, matches, raising) ==
    LET failing == {i \in 1..Len(nodes) : NotDict(nodes[i]) \/ i \in raising}
        hit == failing \cup (matches \cap 1..Len(nodes))
    IN IF hit = {} THEN 0
       ELSE LET i == CHOOSE j \in hit : \A k \in hit : j <= k
            IN IF i \in failing THEN -1 ELSE i

IdIs(id, n) == n.isDict /\ Get(n.f, "id") = id

\* e.get("name", "").startswith(...) raises AttributeError when "name" is null
IsRunRaises(n) ==
    /\ n.isDict
    /\ Get(n.f, "type") = "CreateAction"
    /\ "name" \in DOMAIN n.f
    /\ n.f["name"] = None

\* e.get("@type") == "CreateAction" and e.get("name", "").startswith(...)
IsRun(n) ==
    /\ n.isDict
    /\ Get(n.f, "type") = "CreateAction"
    /\ "name" \in DOMAIN n.f
    /\ StartsWithRun(n.f["name"])

\* the keys extract_wrroc_metadata may return: those that start with "wrroc_"
WrrocKeys ==
    { "wrroc_name", "wrroc_date_published", "wrroc_license", "wrroc_author_name",
      "wrroc_author_orcid", "wrroc_run_id", "wrroc_start_time", "wrroc_end_time",
      "wrroc_runtime_platform", "wrroc_programming_language" }

\* extract_wrroc_metadata past json.load: the fields taken from the graph;
\* [raised |-> TRUE] stands for an exception caught by `except Exception`
Raised == [raised |-> TRUE, md |-> EmptyDict]

Extracted(md) == [raised |-> FALSE, md |-> md]

ExtractGraph(nodes) ==
    LET idx == 1..Len(nodes)
        r == Scan(nodes, {i \in idx : IdIs("./", nodes[i])}, {})
        w == Scan(nodes, {i \in idx : IsRun(nodes[i])}, {i \in idx : IsRunRaises(nodes[i])})
        m == Scan(nodes, {i \in idx : IdIs("main-sqs.nf", nodes[i])}, {})
        root == nodes[r]
        \* root.get("author", {}).get("@id")
        authorRaises == r > 0 /\ root.author.kind \in {"null", "other"}
        author_id == IF r > 0 /\ root.author.kind = "dict" THEN Get(root.author.d, "id") ELSE None
        a == IF TruthyStr(author_id)
             THEN Scan(nodes, {i \in idx : IdIs(author_id, nodes[i])}, {})
             ELSE 0
        rootMd ==
            IF r > 0
            THEN [ wrroc_name |-> Get(root.f, "name"),
                   wrroc_date_published |-> Get(root.f, "datePublished"),
                   wrroc_license |-> Get(root.f, "license") ]
            ELSE EmptyDict
        authorMd ==
            IF a > 0
            THEN [ wrroc_author_name |-> Get(nodes[a].f, "name"),
                   wrroc_author_orcid |-> author_id ]
            ELSE EmptyDict
        runMd ==
            IF w > 0
            THEN [ wrroc_run_id |-> LStripHash(IF "id" \in DOMAIN nodes[w].f THEN nodes[w].f["id"] ELSE ""),
                   wrroc_start_time |-> Get(nodes[w].f, "startTime"),
                   wrroc_end_time |-> Get(nodes[w].f, "endTime") ]
            ELSE EmptyDict
        mainMd ==
            IF m > 0
            THEN Update([wrroc_runtime_platform |-> Get(nodes[m].f, "runtimePlatform")],
                        IF nodes[m].lang.kind \in {"dict", "missing"}
                        THEN [wrroc_programming_language |-> Get(nodes[m].lang.d, "id")]
                        ELSE EmptyDict)
            ELSE EmptyDict
    IN IF r = -1 \/ authorRaises \/ a = -1 \/ w = -1 \/ m = -1
       THEN Raised
       ELSE Extracted(DropNone(Update(Update(Update(rootMd, authorMd), runMd), mainMd)))

\* extract_wrroc_metadata(wrroc_path): the dictionary returned, given whether
\* the path is remote, whether the download succeeded, and the document read
ExtractIgnoringDownload(isS3, cp, doc) ==
    IF doc.json # "object" THEN EmptyDict
    ELSE IF doc.graphKind = "null" THEN EmptyDict
    ELSE ExtractGraph(doc.nodes).md

extract_wrroc_metadata(isS3, downloaded, doc) ==
    IF isS3 /\ ~downloaded THEN EmptyDict
    ELSE IF doc.json # "object" THEN EmptyDict
    ELSE IF doc.graphKind = "null" THEN EmptyDict
    ELSE ExtractGraph(doc.nodes).md

\* ---------------------------------------------------------------------------
\* Post-run notifier: paths, message, poller arithmetic
\* ---------------------------------------------------------------------------

\* wrroc_path.startswith("s3://") on the paths the model uses
StartsWithS3(path) == path \in {"s3://bucket/out", "s3://bucket/out/ro-crate-metadata.json"}

\* f"{outdir}/ro-crate-metadata.json"
WrrocPath(outdir) ==
    IF outdir = "s3://bucket/out" THEN "s3://bucket/out/ro-crate-metadata.json"
    ELSE IF outdir = "/data/out" THEN "/data/out/ro-crate-metadata.json"
    ELSE "/ro-crate-metadata.json"

\* f"{outdir}/"
SourcePrefix(outdir) ==
    IF outdir = "s3://bucket/out" THEN "s3://bucket/out/"
    ELSE IF outdir = "/data/out" THEN "/data/out/"
    ELSE "/"

\* the environment snapshot of build_sqs_message, None values removed
EnvMetadata(e) ==
    DropNone(Update([k \in EnvKeys |-> GetEnv(e, EnvVarOf[k], EnvDefault(k))],
                    [timestamp |-> "utcnow"]))

\* build_sqs_message(outdir, wrroc_metadata, api_metadata) in environment e
BuildWithoutApi(e, outdir, wrroc_metadata, api_metadata) ==
    [ source_prefix |-> SourcePrefix(outdir),
      metadata |-> Update(EnvMetadata(e), wrroc_metadata),
      commit_message |-> "Seqera Platform workflow completed at now" ]

BuildWrrocLast(e, outdir, wrroc_metadata, api_metadata) ==
    [ source_prefix |-> SourcePrefix(outdir),
      metadata |-> Update(Update(EnvMetadata(e), api_metadata), wrroc_metadata),
      commit_message |-> "Seqera Platform workflow completed at now" ]

build_sqs_message(e, outdir, wrroc_metadata, api_metadata) ==
    [ source_prefix |-> SourcePrefix(outdir),
      metadata |-> Update(Update(EnvMetadata(e), wrroc_metadata), api_metadata),
      commit_message |-> "Seqera Platform workflow completed at now" ]

\* attempts = int(max_wait_seconds / check_interval)
AttemptsIgnoringInterval == MaxWaitSeconds

Attempts == (MaxWaitSeconds * 1000) \div CheckIntervalMs

\* the wait budget and the time the file may appear, in clock ticks
BudgetTicks == Attempts * TicksPerInterval

Never == 0 - 1

AppearTimes == (0..(BudgetTicks + TicksPerInterval)) \cup {Never}

\* ---------------------------------------------------------------------------
\* State
\* ---------------------------------------------------------------------------

VARIABLES
    \* post-run notifier (scripts/post_run_sqs.py)
    pc,             \* position in main()
    env,            \* os.environ, the variables the script reads
    workflow_data,  \* main: workflow_data
    queue_url,      \* main: queue_url
    region,         \* main: region
    outdir,         \* main: outdir
    api_metadata,   \* main: api_metadata
    wrroc_found,    \* main: wrroc_found
    wrroc_metadata, \* main: wrroc_metadata
    httpCalls,      \* number of urlopen requests issued
    awsCalls,       \* the aws subcommands invoked so far
    sendCalls,      \* the send-message invocations: queue, region, body
    sendStatus,     \* exit statuses of the send-message invocations
    exitCode,       \* process exit code, NoExit while running
    failure,        \* the step that ended the run early ("none" otherwise)
    pollI,          \* wait_for_wrroc_file: loop index i
    checks,         \* wait_for_wrroc_file: file_exists calls made
    now,            \* clock ticks since wait_for_wrroc_file was entered
    appearT,        \* tick at which the file becomes available, or Never
    tempFile,       \* /tmp/wrroc-metadata.json exists
    wrrocDoc,       \* the document extract_wrroc_metadata read (NoDoc: none read)
    downloaded,     \* extract_wrroc_metadata: "none", "ok" or "failed" (aws s3 cp)
    tempWritten,    \* aws s3 cp wrote /tmp/wrroc-metadata.json during the call
    \* build_sqs_message applied to arbitrary dictionaries
    pcM,            \* "build" before the call, "built" after
    mWrroc,         \* argument wrroc_metadata
    mApi,           \* argument api_metadata
    mMessage,       \* the message returned
    \* setup tool (setup-sqs.py)
    pcS,            \* position in the per-role body of main()'s loop
    policies,       \* the role's inline policies, by name
    queue_arn,      \* main: queue_arn
    has_permission, \* result of check_sqs_permission
    listed,         \* list-role-policies succeeded in the last check
    fetched,        \* policies get-role-policy returned in the last check / add
    add_result,     \* result of add_sqs_permission: "none", "True", "False", "raised"
    putCalls,       \* the put-role-policy invocations: policy name, document
    \* setup tool (setup-sqs.py), main()
    pcT,            \* position in main()
    yes,            \* args.yes
    prompted,       \* the input() prompts issued: "profile", "catalog", "region", "role"
    exitT,          \* process exit status, NoExit while running
    failT,          \* why the run ended ("none": main returned)
    catalog_url,    \* main: catalog_url
    stacks,         \* what cloudformation returned: list-stacks outcome and the stacks
    stack_info,     \* outcome of find_quilt_stack
    tower_roles,    \* the roles find_tower_forge_roles returned, with their policies then
    iam,            \* the roles' inline policies now
    roleI,          \* index of the role the loop is at
    roleLog,        \* per role handled in this run: check result and add result
    runs            \* number of runs of the tool so far

notifierVars ==
    << pc, env, workflow_data, queue_url, region, outdir, api_metadata, wrroc_found,
       wrroc_metadata, httpCalls, awsCalls, sendCalls, sendStatus, exitCode, failure,
       pollI, checks, now, appearT, tempFile, wrrocDoc, downloaded, tempWritten >>

\* what one call of extract_wrroc_metadata leaves to observe
extractVars == << wrrocDoc, downloaded, tempWritten >>

mergeVars == << pcM, mWrroc, mApi, mMessage >>

setupVars == << pcS, policies, queue_arn, has_permission, listed, fetched, add_result, putCalls >>

mainVars ==
    << pcT, yes, prompted, exitT, failT, catalog_url, stacks, stack_info, tower_roles, iam,
       roleI, roleLog, runs >>

vars == << notifierVars, mergeVars, setupVars, mainVars >>

NoExit == 0 - 1

InitNotifier ==
    /\ pc = "fetch"
    /\ env \in EnvSnapshots
    /\ workflow_data = NoneWorkflow
    /\ queue_url = None
    /\ region = None
    /\ outdir = None
    /\ api_metadata = EmptyDict
    /\ wrroc_found = FALSE
    /\ wrroc_metadata = EmptyDict
    /\ httpCalls = 0
    /\ awsCalls = {}
    /\ sendCalls = <<>>
    /\ sendStatus = <<>>
    /\ exitCode = NoExit
    /\ failure = "none"
    /\ pollI = 0
    /\ checks = 0
    /\ now = 0
    /\ appearT = Never
    /\ tempFile = FALSE
    /\ wrrocDoc = NoDoc
    /\ downloaded = "none"
    /\ tempWritten = FALSE

\* sys.exit(code) after the step `why` failed ("none": the run completed)
Exit(code, why) ==
    /\ pc' = "done"
    /\ exitCode' = code
    /\ failure' = why

\* an exception reaches the top level: traceback, exit status 1
Crash ==
    /\ pc' = "done"
    /\ exitCode' = 1
    /\ failure' = "exception"

\* ---------------------------------------------------------------------------
\* Post-run notifier: main()
\* ---------------------------------------------------------------------------

\* Step 1: workflow_data = fetch_workflow_details(); exit 1 if falsy
Fetch ==
    /\ pc = "fetch"
    /\ \E http \in HttpOutcomes, w \in WorkflowSamples :
          /\ workflow_data' = fetch_workflow_details(env, http, w)
          /\ httpCalls' = IF FetchRequests(env) THEN httpCalls + 1 ELSE httpCalls
    /\ IF TruthyWorkflow(workflow_data')
       THEN pc' = "params" /\ UNCHANGED << exitCode, failure >>
       ELSE Exit(1, "fetch")
    /\ UNCHANGED << env, queue_url, region, outdir, api_metadata, wrroc_found, wrroc_metadata,
                    awsCalls, sendCalls, sendStatus, pollI, checks, now, appearT, tempFile >>
    /\ UNCHANGED << extractVars, mergeVars, setupVars, mainVars >>

\* params = workflow_data.get("params", {}); the three params; validation
Validate ==
    /\ pc = "params"
    /\ IF workflow_data.params.kind = "null"
       THEN /\ Crash
            /\ UNCHANGED << queue_url, region, outdir >>
       ELSE LET params == workflow_data.params.d
            IN /\ queue_url' = Get(params, "sqs_queue_url")
               /\ region' = IF "sqs_region" \in DOMAIN params THEN params["sqs_region"] ELSE "us-east-1"
               /\ outdir' = Get(params, "outdir")
               /\ IF ~TruthyStr(outdir') THEN Exit(1, "outdir")
                  ELSE IF ~TruthyStr(queue_url') THEN Exit(1, "queue_url")
                  ELSE pc' = "check_cli" /\ UNCHANGED << exitCode, failure >>
    /\ UNCHANGED << env, workflow_data, api_metadata, wrroc_found, wrroc_metadata, httpCalls,
                    awsCalls, sendCalls, sendStatus, pollI, checks, now, appearT, tempFile >>
    /\ UNCHANGED << extractVars, mergeVars, setupVars, mainVars >>

\* Step 2a: check_aws_cli(): `aws --version` exits 0, exits non-zero, or is not found
CheckAwsCli ==
    /\ pc = "check_cli"
    /\ awsCalls' = awsCalls \cup {"--version"}
    /\ \E outcome \in {"ok", "nonzero", "FileNotFoundError"} :
          IF outcome = "ok"
          THEN pc' = "check_creds" /\ UNCHANGED << exitCode, failure >>
          ELSE Exit(1, "cli")
    /\ UNCHANGED << env, workflow_data, queue_url, region, outdir, api_metadata, wrroc_found,
                    wrroc_metadata, httpCalls, sendCalls, sendStatus, pollI, checks, now,
                    appearT, tempFile >>
    /\ UNCHANGED << extractVars, mergeVars, setupVars, mainVars >>

\* Step 2b: check_aws_credentials(): `aws sts get-caller-identity`
CheckAwsCredentials ==
    /\ pc = "check_creds"
    /\ awsCalls' = awsCalls \cup {"sts get-caller-identity"}
    /\ \E outcome \in {"ok", "nonzero", "Exception"} :
          IF outcome = "ok"
          THEN pc' = "extract_api" /\ UNCHANGED << exitCode, failure >>
          ELSE Exit(1, "credentials")
    /\ UNCHANGED << env, workflow_data, queue_url, region, outdir, api_metadata, wrroc_found,
                    wrroc_metadata, httpCalls, sendCalls, sendStatus, pollI, checks, now,
                    appearT, tempFile >>
    /\ UNCHANGED << extractVars, mergeVars, setupVars, mainVars >>

\* Step 3: api_metadata = extract_api_metadata(workflow_data); then
\* wait_for_wrroc_file is entered (the environment fixes when the file appears)
ExtractApi ==
    /\ pc = "extract_api"
    /\ IF ExtractApiRaises(workflow_data)
       THEN /\ Crash
            /\ UNCHANGED << api_metadata, appearT >>
       ELSE /\ api_metadata' = extract_api_metadata(workflow_data)
            /\ appearT' \in AppearTimes
            /\ pc' = "poll_check"
            /\ UNCHANGED << exitCode, failure >>
    /\ UNCHANGED << env, workflow_data, queue_url, region, outdir, wrroc_found, wrroc_metadata,
                    httpCalls, awsCalls, sendCalls, sendStatus, pollI, checks, now, tempFile >>
    /\ UNCHANGED << extractVars, mergeVars, setupVars, mainVars >>

\* file_exists(path) at clock tick t: `aws s3 ls` exits 0, or the local file
\* exists and is not empty
file_exists(t) == appearT # Never /\ appearT <= t

\* Step 4, wait_for_wrroc_file: one pass of the loop body up to the sleep
PollCheck ==
    /\ pc = "poll_check"
    /\ pollI < Attempts
    /\ checks' = checks + 1
    /\ awsCalls' = IF StartsWithS3(WrrocPath(outdir)) THEN awsCalls \cup {"s3 ls"} ELSE awsCalls
    /\ IF file_exists(now)
       THEN /\ wrroc_found' = TRUE
            /\ pc' = "extract_wrroc"
       ELSE /\ pc' = "poll_sleep"
            /\ UNCHANGED wrroc_found
    /\ UNCHANGED << env, workflow_data, queue_url, region, outdir, api_metadata, wrroc_metadata,
                    httpCalls, sendCalls, sendStatus, exitCode, failure, pollI, now, appearT,
                    tempFile >>
    /\ UNCHANGED << extractVars, mergeVars, setupVars, mainVars >>

\* time.sleep(check_interval), then the next i
PollSleep ==
    /\ pc = "poll_sleep"
    /\ now' = now + TicksPerInterval
    /\ pollI' = pollI + 1
    /\ pc' = "poll_check"
    /\ UNCHANGED << env, workflow_data, queue_url, region, outdir, api_metadata, wrroc_found,
                    wrroc_metadata, httpCalls, awsCalls, sendCalls, sendStatus, exitCode,
                    failure, checks, appearT, tempFile >>
    /\ UNCHANGED << extractVars, mergeVars, setupVars, mainVars >>

\* the loop is exhausted: return False; main skips the extraction
PollTimeout ==
    /\ pc = "poll_check"
    /\ pollI >= Attempts
    /\ wrroc_found' = FALSE
    /\ pc' = "send"
    /\ UNCHANGED << env, workflow_data, queue_url, region, outdir, api_metadata, wrroc_metadata,
                    httpCalls, awsCalls, sendCalls, sendStatus, exitCode, failure, pollI,
                    checks, now, appearT, tempFile >>
    /\ UNCHANGED << extractVars, mergeVars, setupVars, mainVars >>

\* extract_wrroc_metadata, `finally`: does /tmp/wrroc-metadata.json exist after
\* the call, given whether the path is remote (temp_file is set) and whether
\* the file exists when the block is entered
TempNeverRemoved(isS3, exists) == exists

TempAfterFinally(isS3, exists) == IF isS3 /\ exists THEN FALSE ELSE exists

\* Step 5: wrroc_metadata = extract_wrroc_metadata(wrroc_path), wrroc_found only.
\* A remote file is copied to the temporary file by `aws s3 cp`, which writes
\* the file when it succeeds and may leave one behind when it fails.
ExtractFrom(docs) ==
    /\ pc = "extract_wrroc"
    /\ wrroc_found
    /\ LET isS3 == StartsWithS3(WrrocPath(outdir))
       IN \E doc \in docs, cp \in BOOLEAN, left \in BOOLEAN :
             /\ isS3 \/ (cp /\ ~left)
             /\ cp => ~left
             /\ wrrocDoc' = IF cp THEN doc ELSE NoDoc
             /\ downloaded' = IF ~isS3 THEN "none" ELSE IF cp THEN "ok" ELSE "failed"
             /\ tempWritten' = (isS3 /\ (cp \/ left))
             /\ wrroc_metadata' = extract_wrroc_metadata(isS3, cp, doc)
             /\ awsCalls' = IF isS3 THEN awsCalls \cup {"s3 cp"} ELSE awsCalls
             /\ tempFile' = TempAfterFinally(isS3, tempFile \/ tempWritten')
    /\ pc' = "send"
    /\ UNCHANGED << env, workflow_data, queue_url, region, outdir, api_metadata, wrroc_found,
                    httpCalls, sendCalls, sendStatus, exitCode, failure, pollI, checks, now,
                    appearT >>
    /\ UNCHANGED << mergeVars, setupVars, mainVars >>

\* the call in a run of main(), and the call on any of the documents
ExtractWrroc == ExtractFrom(WrrocDocs)

ExtractAny == ExtractFrom(AllDocs)

\* send_sqs_message: the exit statuses `aws sqs send-message` may end with
SendStatuses == {0, 255}

\* Step 6: message = build_sqs_message(...); success = send_sqs_message(...);
\* sys.exit(0) on success, sys.exit(1) otherwise
ExitAlwaysZero(status) == 0

ExitOf(status) == IF status = 0 THEN 0 ELSE 1

BuildAndSend ==
    /\ pc = "send"
    /\ LET message == build_sqs_message(env, outdir, wrroc_metadata, api_metadata)
       IN sendCalls' = Append(sendCalls, [queue_url |-> queue_url, region |-> region, body |-> message])
    /\ awsCalls' = awsCalls \cup {"sqs send-message"}
    /\ \E status \in SendStatuses :
          /\ sendStatus' = Append(sendStatus, status)
          /\ Exit(ExitOf(status), IF status = 0 THEN "none" ELSE "send")
    /\ UNCHANGED << env, workflow_data, queue_url, region, outdir, api_metadata, wrroc_found,
                    wrroc_metadata, httpCalls, pollI, checks, now, appearT, tempFile >>
    /\ UNCHANGED << extractVars, mergeVars, setupVars, mainVars >>

\* ---------------------------------------------------------------------------
\* Setup tool (setup-sqs.py): inline policies of a role
\* ---------------------------------------------------------------------------

\* Largest number of statements of the role's nextflow-policy before the tool runs.
MaxStatements == 2

\* An "Action" or "Resource" value: a string, a list of strings (v), or a
\* value of another type (kind "other"); a missing key reads as the empty list.
Str(x) == [kind |-> "str", v |-> <<x>>]
List(xs) == [kind |-> "list", v |-> xs]
OtherValue == [kind |-> "other", v |-> <<>>]

Statement(sid, effect, action, resource) ==
    [isDict |-> TRUE, Sid |-> sid, Effect |-> effect, Action |-> action, Resource |-> resource]

ArnA == "arn:aws:sqs:us-east-1:1:queue-a"

ArnB == "arn:aws:sqs:us-east-1:1:queue-b"

QueueArns == {ArnA, ArnB}

ActionSamples ==
    { Str("sqs:SendMessage"), Str("sqs:*"), Str("*"), Str("s3:GetObject"),
      List(<<"s3:GetObject", "sqs:SendMessage">>), OtherValue }

ResourceSamples ==
    { Str(ArnA), Str("*"), List(<<ArnB, ArnA>>) }

\* the statements a policy of the role may hold before the tool runs
StatementSamples ==
    { Statement("S", "Allow", a, r) : a \in ActionSamples, r \in ResourceSamples }

\* A policy document: Statement is a list of statements, or (isList FALSE) a
\* single statement object, which IAM accepts as well.
PolicyDoc(isList, statements) ==
    [exists |-> TRUE, Version |-> "2012-10-17", isList |-> isList, Statement |-> statements]

NoPolicy == [exists |-> FALSE, Version |-> "", isList |-> TRUE, Statement |-> <<>>]

SeqsUpTo(S, n) == UNION { [1..k -> S] : k \in 0..n }

NextflowPolicySamples ==
    {NoPolicy}
    \cup { PolicyDoc(TRUE, ss) : ss \in SeqsUpTo(StatementSamples, MaxStatements) }
    \cup { PolicyDoc(FALSE, <<Statement("S", "Allow", Str("sqs:SendMessage"), Str("*"))>>) }

OtherPolicySamples ==
    { NoPolicy,
      PolicyDoc(TRUE, <<Statement("O", "Allow", Str("sqs:*"), List(<<ArnB>>))>>),
      PolicyDoc(TRUE, <<Statement("O", "Allow", Str("*"), Str("*"))>>),
      PolicyDoc(TRUE, <<Statement("O", "Allow", Str("s3:GetObject"), Str("*"))>>) }

PolicyNames == {"nextflow-policy", "other-policy"}

\* x in xs, for a Python list xs
InList(x, xs) == \E i \in 1..Len(xs) : xs[i] = x

\* check_sqs_permission, innermost loop body: does this statement grant
\* sqs:SendMessage on queue_arn
StatementGrantsExactOnly(statement, arn) ==
    /\ statement.isDict
    /\ statement.Action.kind \in {"str", "list"}
    /\ statement.Resource.kind \in {"str", "list"}
    /\ InList("sqs:SendMessage", statement.Action.v) \/ InList("sqs:*", statement.Action.v)
    /\ InList(arn, statement.Resource.v)

StatementGrants(statement, arn) ==
    /\ statement.isDict
    /\ statement.Action.kind \in {"str", "list"}
    /\ statement.Resource.kind \in {"str", "list"}
    /\ LET has_send_message ==
               InList("sqs:SendMessage", statement.Action.v) \/ InList("sqs:*", statement.Action.v)
           has_queue == InList(arn, statement.Resource.v) \/ InList("*", statement.Resource.v)
       IN has_send_message /\ has_queue

\* get_role_policy(role, name): the document, or None (here NoPolicy) when
\* get-role-policy fails; `got` are the names for which the call succeeds
get_role_policy(pols, name, got) ==
    IF name \in got /\ pols[name].exists THEN pols[name] ELSE NoPolicy

\* check_sqs_permission(role, queue_arn): list_ok is the outcome of
\* list-role-policies, got the policies get-role-policy returns
check_sqs_permission(pols, arn, list_ok, got) ==
    /\ list_ok
    /\ \E name \in {n \in PolicyNames : pols[n].exists} :
          LET policy_doc == get_role_policy(pols, name, got)
          IN /\ policy_doc.exists
             /\ policy_doc.isList
             /\ \E i \in 1..Len(policy_doc.Statement) :
                   StatementGrants(policy_doc.Statement[i], arn)

\* the statement add_sqs_permission appends
SqsStatement(arn) == Statement("SQSSendMessage", "Allow", Str("sqs:SendMessage"), Str(arn))

\* add_sqs_permission: the document handed to put-role-policy
UpdatedPrepend(policy_doc, arn) ==
    [policy_doc EXCEPT !.Statement = <<SqsStatement(arn)>> \o @]

UpdatedPolicy(policy_doc, arn) ==
    [policy_doc EXCEPT !.Statement = Append(@, SqsStatement(arn))]

\* add_sqs_permission returns False before any write when `not policy_doc`
AddProceedsAlways(policy_doc) == TRUE

AddProceeds(policy_doc) == policy_doc.exists

InitSetupIdle ==
    /\ pcS = "idle"
    /\ policies = [n \in PolicyNames |-> NoPolicy]
    /\ queue_arn = ArnA
    /\ has_permission = FALSE
    /\ listed = FALSE
    /\ fetched = {}
    /\ add_result = "none"
    /\ putCalls = <<>>

InitSetup ==
    /\ pcS = "check"
    /\ policies \in { [n \in PolicyNames |-> IF n = "nextflow-policy" THEN nf ELSE ot] :
                      nf \in NextflowPolicySamples, ot \in OtherPolicySamples }
    /\ queue_arn \in QueueArns
    /\ has_permission = FALSE
    /\ listed = FALSE
    /\ fetched = {}
    /\ add_result = "none"
    /\ putCalls = <<>>

\* main loop body: if check_sqs_permission(...): continue
CheckPermission ==
    /\ pcS = "check"
    /\ \E l \in BOOLEAN, f \in SUBSET {n \in PolicyNames : policies[n].exists} :
          /\ listed' = l
          /\ fetched' = f
          /\ has_permission' = check_sqs_permission(policies, queue_arn, l, f)
    /\ pcS' = IF has_permission' THEN "done" ELSE "prompt"
    /\ UNCHANGED << policies, queue_arn, add_result, putCalls >>
    /\ UNCHANGED << notifierVars, mergeVars, mainVars >>

\* if args.yes or prompt_yes_no(...): ... else: print("Skipped")
\* prompt_yes_no is called only when args.yes is false
Prompt ==
    /\ pcS = "prompt"
    /\ IF yes
       THEN /\ pcS' = "add"
            /\ UNCHANGED prompted
       ELSE /\ prompted' = prompted \cup {"role"}
            /\ \E approved \in BOOLEAN : pcS' = IF approved THEN "add" ELSE "done"
    /\ UNCHANGED << policies, queue_arn, has_permission, listed, fetched, add_result, putCalls >>
    /\ UNCHANGED << pcT, yes, exitT, failT, catalog_url, stacks, stack_info, tower_roles, iam,
                    roleI, roleLog, runs >>
    /\ UNCHANGED << notifierVars, mergeVars >>

\* add_sqs_permission(role_name, queue_arn)
AddPermission ==
    /\ pcS = "add"
    /\ \E getOk \in BOOLEAN, putOk \in BOOLEAN :
          LET f == IF getOk THEN {"nextflow-policy"} ELSE {}
              policy_doc == get_role_policy(policies, "nextflow-policy", f)
          IN /\ fetched' = f
             /\ IF ~AddProceeds(policy_doc)
                THEN /\ add_result' = "False"
                     /\ UNCHANGED << policies, putCalls >>
                ELSE IF ~policy_doc.isList
                THEN \* policy_doc['Statement'].append raises AttributeError
                     /\ add_result' = "raised"
                     /\ UNCHANGED << policies, putCalls >>
                ELSE /\ putCalls' = Append(putCalls,
                            [name |-> "nextflow-policy", doc |-> UpdatedPolicy(policy_doc, queue_arn)])
                     /\ IF putOk
                        THEN /\ policies' = [policies EXCEPT !["nextflow-policy"] =
                                                UpdatedPolicy(policy_doc, queue_arn)]
                             /\ add_result' = "True"
                        ELSE /\ add_result' = "False"
                             /\ UNCHANGED policies
    /\ pcS' = "done"
    /\ UNCHANGED << queue_arn, has_permission, listed >>
    /\ UNCHANGED << notifierVars, mergeVars, mainVars >>

\* ---------------------------------------------------------------------------
\* Setup tool (setup-sqs.py): find_quilt_stack
\* ---------------------------------------------------------------------------

\* Largest number of stacks list-stacks returns.
MaxStacks == 2

\* Largest number of TowerForge roles find_tower_forge_roles returns.
MaxRoles == 2

\* Largest number of runs of the tool against the same queue.
MaxRuns == 2

\* normalize_url(url) on the URLs the model uses:
\* url.replace('https://', '').replace('http://', '').rstrip('/')
normalize_url(url) ==
    CASE url \in {"https://cat.example.com", "https://cat.example.com/",
                  "http://cat.example.com/", "cat.example.com"} -> "cat.example.com"
      [] url \in {"https://other.example.com", "other.example.com"} -> "other.example.com"
      [] OTHER -> url

CatalogUrls == {"https://cat.example.com", "https://cat.example.com/"}

\* One entry of StackSummaries with what describe-stacks returns for it:
\* named: StackName is present; describe: the call fails ("fails"), prints
\* nothing ("blank"), returns "Stacks": [] ("no_stacks"), a stack without
\* Outputs ("no_outputs") or a stack with Outputs ("outputs"), whose
\* QuiltWebHost value is host (None: no such output).
Stack(named, describe, host) == [named |-> named, describe |-> describe, host |-> host]

StackSamples ==
    { Stack(TRUE, d, None) : d \in {"fails", "blank", "no_stacks", "no_outputs", "outputs"} }
    \cup { Stack(TRUE, "outputs", h) :
             h \in {"https://cat.example.com", "http://cat.example.com/", "https://other.example.com"} }
    \cup { Stack(FALSE, "outputs", "https://cat.example.com") }

\* what cloudformation returns: whether list-stacks succeeds, and the stacks
Listing(list_ok, summaries) == [list_ok |-> list_ok, summaries |-> summaries]

Listings ==
    { Listing(ok, ss) : ok \in BOOLEAN, ss \in SeqsUpTo(StackSamples, MaxStacks) }

NoListing == Listing(FALSE, <<>>)

\* the listings a run of main() is checked with: list-stacks fails, no stack
\* matches, the second of three stacks is the first match, a describe raises
MainListings ==
    { NoListing,
      Listing(TRUE, <<Stack(TRUE, "outputs", "https://other.example.com")>>),
      Listing(TRUE, <<Stack(TRUE, "fails", None), Stack(TRUE, "outputs", "http://cat.example.com/"),
                      Stack(TRUE, "outputs", "https://cat.example.com")>>),
      Listing(TRUE, <<Stack(TRUE, "no_stacks", None)>>) }

\* the value find_quilt_stack returns: the index of the stack found (None
\* when found is false), or an exception other than CalledProcessError
StackResult(found, raised, index) == [found |-> found, raised |-> raised, index |-> index]

NotFound == StackResult(FALSE, FALSE, 0)

\* the loop body for one stack summary: does it return this stack
StackMatches(stack, target_url) ==
    /\ stack.named
    /\ stack.describe = "outputs"
    /\ stack.host # None
    /\ normalize_url(stack.host) = target_url

\* stack_details.get('Stacks', [{}])[0] raises IndexError on an empty list
StackRaises(stack) == stack.named /\ stack.describe = "no_stacks"

\* find_quilt_stack(region, catalog_url, profile)
find_quilt_stack(listing, catalog) ==
    IF ~listing.list_ok THEN NotFound
    ELSE LET ss == listing.summaries
             target_url == normalize_url(catalog)
             hit == {i \in 1..Len(ss) : StackRaises(ss[i]) \/ StackMatches(ss[i], target_url)}
         IN IF hit = {} THEN NotFound
            ELSE LET i == CHOOSE j \in hit : \A k \in hit : j <= k
                 IN IF StackRaises(ss[i]) THEN StackResult(FALSE, TRUE, 0)
                    ELSE StackResult(TRUE, FALSE, i)

\* ---------------------------------------------------------------------------
\* Setup tool (setup-sqs.py): main()
\* ---------------------------------------------------------------------------

\* the inline policies of a TowerForge role when the tool first runs: a
\* nextflow-policy without the permission, one with it, none at all, and one
\* whose Statement is a single object
RolePolicies(nf) == [n \in PolicyNames |-> IF n = "nextflow-policy" THEN nf ELSE NoPolicy]

RoleSamples ==
    { RolePolicies(PolicyDoc(TRUE, <<Statement("S", "Allow", Str("s3:GetObject"), Str("*"))>>)),
      RolePolicies(PolicyDoc(TRUE, <<Statement("S", "Allow", Str("sqs:SendMessage"), Str("*"))>>)),
      RolePolicies(NoPolicy),
      RolePolicies(PolicyDoc(FALSE, <<Statement("S", "Allow", Str("s3:GetObject"), Str("*"))>>)) }

RoleLists == SeqsUpTo(RoleSamples, MaxRoles)

InitMainIdle ==
    /\ pcT = "idle"
    /\ yes = FALSE
    /\ prompted = {}
    /\ exitT = NoExit
    /\ failT = "none"
    /\ catalog_url = None
    /\ stacks = NoListing
    /\ stack_info = NotFound
    /\ tower_roles = <<>>
    /\ iam = <<>>
    /\ roleI = 0
    /\ roleLog = <<>>
    /\ runs = 0

InitMain ==
    /\ pcT = "profile"
    /\ yes \in BOOLEAN
    /\ prompted = {}
    /\ exitT = NoExit
    /\ failT = "none"
    /\ catalog_url = None
    /\ stacks = NoListing
    /\ stack_info = NotFound
    /\ tower_roles = <<>>
    /\ iam = <<>>
    /\ roleI = 0
    /\ roleLog = <<>>
    /\ runs = 1

\* sys.exit(code) in main() because of `why`
ExitT(code, why) ==
    /\ pcT' = "exit"
    /\ exitT' = code
    /\ failT' = why

\* an exception leaves main(): the handler at the end of the file prints it
\* and the traceback, and the process ends with status 0
CrashT ==
    /\ pcT' = "exit"
    /\ exitT' = 0
    /\ failT' = "exception"

\* Step 0: the profile is asked for unless --profile or --yes is given
ResolveProfile ==
    /\ pcT = "profile"
    /\ \E given \in BOOLEAN :
          prompted' = IF ~given /\ ~yes THEN prompted \cup {"profile"} ELSE prompted
    /\ pcT' = "catalog"
    /\ UNCHANGED << yes, exitT, failT, catalog_url, stacks, stack_info, tower_roles, iam,
                    roleI, roleLog, runs >>
    /\ UNCHANGED << notifierVars, mergeVars, setupVars >>

\* Step 1: catalog_url = args.catalog or get_quilt3_catalog(), else asked for
ResolveCatalog ==
    /\ pcT = "catalog"
    /\ \E given \in BOOLEAN, quilt3 \in BOOLEAN, answer \in CatalogUrls \cup {""}, url \in CatalogUrls :
          IF given \/ quilt3
          THEN /\ catalog_url' = url
               /\ pcT' = "region"
               /\ UNCHANGED << prompted, exitT, failT >>
          ELSE IF yes
          THEN /\ ExitT(1, "catalog")
               /\ UNCHANGED << prompted, catalog_url >>
          ELSE /\ prompted' = prompted \cup {"catalog"}
               /\ IF answer = ""
                  THEN ExitT(1, "catalog") /\ UNCHANGED catalog_url
                  ELSE /\ catalog_url' = answer
                       /\ pcT' = "region"
                       /\ UNCHANGED << exitT, failT >>
    /\ UNCHANGED << yes, stacks, stack_info, tower_roles, iam, roleI, roleLog, runs >>
    /\ UNCHANGED << notifierVars, mergeVars, setupVars >>

\* Step 2: region = args.region or get_catalog_region(catalog_url), else asked
\* for; get_catalog_region returns the region, returns None, or raises an
\* exception it does not catch
ResolveRegion ==
    /\ pcT = "region"
    /\ \E given \in BOOLEAN, outcome \in {"region", "None", "raised"} :
          IF given \/ outcome = "region"
          THEN /\ pcT' = "stack"
               /\ UNCHANGED << prompted, exitT, failT >>
          ELSE IF outcome = "raised"
          THEN CrashT /\ UNCHANGED prompted
          ELSE IF yes
          THEN ExitT(1, "region") /\ UNCHANGED prompted
          ELSE /\ prompted' = prompted \cup {"region"}
               /\ pcT' = "stack"
               /\ UNCHANGED << exitT, failT >>
    /\ UNCHANGED << yes, catalog_url, stacks, stack_info, tower_roles, iam, roleI, roleLog, runs >>
    /\ UNCHANGED << notifierVars, mergeVars, setupVars >>

\* Step 3: stack_info = find_quilt_stack(...); exit 1 if there is none
FindStackIn(listings) ==
    /\ pcT = "stack"
    /\ \E listing \in listings :
          /\ stacks' = listing
          /\ stack_info' = find_quilt_stack(listing, catalog_url)
    /\ IF stack_info'.raised THEN CrashT
       ELSE IF ~stack_info'.found THEN ExitT(1, "stack")
       ELSE pcT' = "queue" /\ UNCHANGED << exitT, failT >>
    /\ UNCHANGED << yes, prompted, catalog_url, tower_roles, iam, roleI, roleLog, runs >>
    /\ UNCHANGED << notifierVars, mergeVars, setupVars >>

\* the call in a run of main(), and the call on any of the listings
FindStack == FindStackIn(MainListings)

FindStackAny == FindStackIn(Listings)

\* Step 4: the queue URL from the stack's outputs, the ARN from get_queue_arn
GetQueue ==
    /\ pcT = "queue"
    /\ \E has_url \in BOOLEAN, arn \in {ArnA, None} :
          IF ~has_url THEN ExitT(1, "queue") /\ UNCHANGED queue_arn
          ELSE IF arn = None THEN ExitT(1, "arn") /\ UNCHANGED queue_arn
          ELSE /\ queue_arn' = arn
               /\ pcT' = "roles"
               /\ UNCHANGED << exitT, failT >>
    /\ UNCHANGED << yes, prompted, catalog_url, stacks, stack_info, tower_roles, iam, roleI,
                    roleLog, runs >>
    /\ UNCHANGED << pcS, policies, has_permission, listed, fetched, add_result, putCalls >>
    /\ UNCHANGED << notifierVars, mergeVars >>

\* Step 5: tower_roles = find_tower_forge_roles(...); exit 0 if there is none
FindRoles ==
    /\ pcT = "roles"
    /\ \E roles \in RoleLists :
          /\ tower_roles' = roles
          /\ iam' = roles
    /\ IF tower_roles' = <<>>
       THEN ExitT(0, "no_roles")
       ELSE pcT' = "loop" /\ UNCHANGED << exitT, failT >>
    /\ UNCHANGED << yes, prompted, catalog_url, stacks, stack_info, roleI, roleLog, runs >>
    /\ UNCHANGED << notifierVars, mergeVars, setupVars >>

\* the loop body has ended for the role at roleI: what it did, and the
\* role's policies as it leaves them
LogOf(i) == IF i = 0 THEN roleLog ELSE Append(roleLog, [has |-> has_permission, add |-> add_result])

IamOf(i) == IF i = 0 THEN iam ELSE [iam EXCEPT ![i] = policies]

\* Step 6, `for role in tower_roles`: the next role
NextRole ==
    /\ pcT = "loop"
    /\ pcS \in {"idle", "done"}
    /\ add_result # "raised"
    /\ roleI < Len(iam)
    /\ roleLog' = LogOf(roleI)
    /\ iam' = IamOf(roleI)
    /\ roleI' = roleI + 1
    /\ policies' = iam[roleI + 1]
    /\ pcS' = "check"
    /\ has_permission' = FALSE
    /\ listed' = FALSE
    /\ fetched' = {}
    /\ add_result' = "none"
    /\ UNCHANGED << queue_arn, putCalls >>
    /\ UNCHANGED << pcT, yes, prompted, exitT, failT, catalog_url, stacks, stack_info,
                    tower_roles, runs >>
    /\ UNCHANGED << notifierVars, mergeVars >>

\* the loop is exhausted: "Setup Complete", main() returns
Finish ==
    /\ pcT = "loop"
    /\ pcS = "done"
    /\ add_result # "raised"
    /\ roleI = Len(iam)
    /\ roleLog' = LogOf(roleI)
    /\ iam' = IamOf(roleI)
    /\ pcS' = "idle"
    /\ ExitT(0, "none")
    /\ UNCHANGED << policies, queue_arn, has_permission, listed, fetched, add_result, putCalls >>
    /\ UNCHANGED << yes, prompted, catalog_url, stacks, stack_info, tower_roles, roleI, runs >>
    /\ UNCHANGED << notifierVars, mergeVars >>

\* add_sqs_permission raised (AttributeError is not caught there): main() is
\* left with the roles after this one not handled
LoopRaises ==
    /\ pcT = "loop"
    /\ pcS = "done"
    /\ add_result = "raised"
    /\ roleLog' = LogOf(roleI)
    /\ iam' = IamOf(roleI)
    /\ pcS' = "idle"
    /\ CrashT
    /\ UNCHANGED << policies, queue_arn, has_permission, listed, fetched, add_result, putCalls >>
    /\ UNCHANGED << yes, prompted, catalog_url, stacks, stack_info, tower_roles, roleI, runs >>
    /\ UNCHANGED << notifierVars, mergeVars >>

\* the tool is run again with the same arguments, and finds the same queue
\* and the same roles, with the policies the earlier runs left
RunAgain ==
    /\ pcT = "exit"
    /\ failT = "none"
    /\ runs < MaxRuns
    /\ runs' = runs + 1
    /\ pcT' = "loop"
    /\ exitT' = NoExit
    /\ roleI' = 0
    /\ roleLog' = <<>>
    /\ add_result' = "none"
    /\ UNCHANGED << pcS, policies, queue_arn, has_permission, listed, fetched, putCalls >>
    /\ UNCHANGED << yes, prompted, failT, catalog_url, stacks, stack_info, tower_roles, iam >>
    /\ UNCHANGED << notifierVars, mergeVars >>

\* ---------------------------------------------------------------------------
\* build_sqs_message on arbitrary dictionaries
\* ---------------------------------------------------------------------------

\* keys the two dictionary arguments may hold besides one of their own: three
\* that the environment snapshot holds too, so that all three sources can collide
MergeKeys == {"tower_workflow_id", "tower_project_id", "session_id"}

DictsOver(keys, values) == UNION { [K -> values] : K \in SUBSET keys }

NoMessage == [source_prefix |-> "", metadata |-> EmptyDict, commit_message |-> ""]

InitMergeIdle ==
    /\ pcM = "idle"
    /\ mWrroc = EmptyDict
    /\ mApi = EmptyDict
    /\ mMessage = NoMessage

InitMerge ==
    /\ pcM = "build"
    /\ mWrroc \in DictsOver(MergeKeys \cup {"wrroc_name"}, {"w1", "v"})
    /\ mApi \in DictsOver(MergeKeys \cup {"api_status"}, {"a1", "v"})
    /\ mMessage = NoMessage

InitNotifierIdle ==
    /\ pc = "idle"
    /\ workflow_data = NoneWorkflow
    /\ queue_url = None
    /\ region = None
    /\ outdir = None
    /\ api_metadata = EmptyDict
    /\ wrroc_found = FALSE
    /\ wrroc_metadata = EmptyDict
    /\ httpCalls = 0
    /\ awsCalls = {}
    /\ sendCalls = <<>>
    /\ sendStatus = <<>>
    /\ exitCode = NoExit
    /\ failure = "none"
    /\ pollI = 0
    /\ checks = 0
    /\ now = 0
    /\ appearT = Never
    /\ tempFile = FALSE
    /\ wrrocDoc = NoDoc
    /\ downloaded = "none"
    /\ tempWritten = FALSE

\* message = build_sqs_message(outdir, wrroc_metadata, api_metadata)
BuildMessage ==
    /\ pcM = "build"
    /\ mMessage' = build_sqs_message(env, "/data/out", mWrroc, mApi)
    /\ pcM' = "built"
    /\ UNCHANGED << mWrroc, mApi, notifierVars, setupVars, mainVars >>

\* ---------------------------------------------------------------------------
\* Specifications
\* ---------------------------------------------------------------------------

\* main() at Step 5 with the file found, as the state extract_wrroc_metadata
\* is called in: a local or a remote path, /tmp/wrroc-metadata.json there or not
InitExtract ==
    /\ pc = "extract_wrroc"
    /\ env \in {CHOOSE e \in EnvSnapshots : TRUE}
    /\ workflow_data = NoneWorkflow
    /\ queue_url = QueueUrl
    /\ region = "us-east-1"
    /\ outdir \in {"/data/out", "s3://bucket/out"}
    /\ api_metadata = EmptyDict
    /\ wrroc_found = TRUE
    /\ wrroc_metadata = EmptyDict
    /\ httpCalls = 0
    /\ awsCalls = {}
    /\ sendCalls = <<>>
    /\ sendStatus = <<>>
    /\ exitCode = NoExit
    /\ failure = "none"
    /\ pollI = 0
    /\ checks = 1
    /\ now = 0
    /\ appearT = 0
    /\ tempFile \in BOOLEAN
    /\ wrrocDoc = NoDoc
    /\ downloaded = "none"
    /\ tempWritten = FALSE

\* the post-run notifier, one run of main()
Init == InitNotifier /\ InitMergeIdle /\ InitSetupIdle /\ InitMainIdle

Next ==
    \/ Fetch
    \/ Validate
    \/ CheckAwsCli
    \/ CheckAwsCredentials
    \/ ExtractApi
    \/ PollCheck
    \/ PollSleep
    \/ PollTimeout
    \/ ExtractWrroc
    \/ BuildAndSend

Spec == Init /\ [][Next]_vars

\* build_sqs_message as a function of its arguments and the environment
InitM == InitNotifierIdle /\ env \in EnvSnapshots /\ InitMerge /\ InitSetupIdle /\ InitMainIdle

NextM == BuildMessage

SpecMerge == InitM /\ [][NextM]_vars

\* extract_wrroc_metadata as a function of the path and of the file read
InitE == InitExtract /\ InitMergeIdle /\ InitSetupIdle /\ InitMainIdle

NextE == ExtractAny

SpecExtract == InitE /\ [][NextE]_vars

\* the setup tool's handling of one role
InitS ==
    InitNotifierIdle /\ env \in {CHOOSE e \in EnvSnapshots : TRUE} /\ InitMergeIdle /\ InitSetup /\ InitMainIdle

NextS ==
    \/ CheckPermission
    \/ Prompt
    \/ AddPermission

SpecSetup == InitS /\ [][NextS]_vars

\* the setup tool, runs of main()
InitT ==
    InitNotifierIdle /\ env \in {CHOOSE e \in EnvSnapshots : TRUE} /\ InitMergeIdle /\ InitSetupIdle /\ InitMain

NextT ==
    \/ ResolveProfile
    \/ ResolveCatalog
    \/ ResolveRegion
    \/ FindStack
    \/ GetQueue
    \/ FindRoles
    \/ NextRole
    \/ CheckPermission
    \/ Prompt
    \/ AddPermission
    \/ Finish
    \/ LoopRaises
    \/ RunAgain

SpecMain == InitT /\ [][NextT]_vars

\* find_quilt_stack as a function of the catalog URL and of what
\* cloudformation returns, in main() at Step 3
InitStack ==
    /\ pcT = "stack"
    /\ yes \in BOOLEAN
    /\ prompted = {}
    /\ exitT = NoExit
    /\ failT = "none"
    /\ catalog_url \in CatalogUrls
    /\ stacks = NoListing
    /\ stack_info = NotFound
    /\ tower_roles = <<>>
    /\ iam = <<>>
    /\ roleI = 0
    /\ roleLog = <<>>
    /\ runs = 1

InitK ==
    InitNotifierIdle /\ env \in {CHOOSE e \in EnvSnapshots : TRUE} /\ InitMergeIdle /\ InitSetupIdle /\ InitStack

NextK == FindStackAny

SpecStack == InitK /\ [][NextK]_vars

\* ---------------------------------------------------------------------------
\* Properties: post-run notifier
\* ---------------------------------------------------------------------------

TokenUnset == env["TOWER_ACCESS_TOKEN"] = None

\* C1 as stated: with TOWER_ACCESS_TOKEN unset the skipped API fetch is not a
\* failure: main() does not end with exit code 1 for want of workflow data.
C1_MissingTokenNotFatal ==
    (TokenUnset /\ pc = "done") => ~(exitCode = 1 /\ failure = "fetch")

\* C1 as amended: with TOWER_ACCESS_TOKEN unset no HTTP request is issued,
\* fetch_workflow_details returns no data, and main() ends with exit code 1 at
\* once: no aws command is invoked and no message is built or sent.
C1_MissingTokenFatal ==
    (TokenUnset /\ pc # "fetch") =>
        /\ pc = "done"
        /\ exitCode = 1
        /\ failure = "fetch"
        /\ workflow_data = NoneWorkflow
        /\ httpCalls = 0
        /\ awsCalls = {}
        /\ sendCalls = <<>>

C1_Witness == TokenUnset /\ pc = "done" /\ exitCode = 1

\* the value the message metadata holds for key k under a precedence order,
\* given as the sources from the strongest to the weakest
ByPrecedence(k, first, second, third) ==
    IF k \in DOMAIN first THEN first[k]
    ELSE IF k \in DOMAIN second THEN second[k]
    ELSE third[k]

MergedKeys == DOMAIN EnvMetadata(env) \cup DOMAIN mWrroc \cup DOMAIN mApi

PollEntered == pc \in {"poll_check", "poll_sleep"}

PollReturned == checks > 0 /\ pc \in {"extract_wrroc", "send", "done"}

\* C3 as stated: a file that becomes available at a time T before the wait
\* budget expires, and stays available, is reported found, no later than one
\* poll interval after T; "not found" is never returned for it.
C3_FoundWithinInterval ==
    (appearT # Never /\ appearT < BudgetTicks) =>
        /\ PollReturned => (wrroc_found /\ now <= appearT + TicksPerInterval)
        /\ PollEntered => now <= appearT + TicksPerInterval

\* C4: the poller makes at most budget / interval existence checks (120 for
\* the default budget); when the file never becomes available it returns
\* False, after exactly that many checks and with the slept time equal to the
\* budget; and it does not raise: the run goes on to build the message.
C4_TimeoutAtBudget ==
    /\ checks <= 120
    /\ checks <= Attempts
    /\ pollI <= Attempts
    /\ now = pollI * TicksPerInterval
    /\ now <= BudgetTicks
    /\ (PollReturned /\ ~wrroc_found) =>
          /\ checks = 120
          /\ pollI * CheckIntervalMs = MaxWaitSeconds * 1000
          /\ now = BudgetTicks
          /\ failure # "exception"
    /\ (PollReturned /\ appearT = Never) => ~wrroc_found
    /\ (pc = "poll_check" /\ pollI = Attempts) => ENABLED PollTimeout

C4_Witness == pc = "send" /\ appearT = Never /\ ~wrroc_found /\ checks = 120 /\ now = BudgetTicks

\* the required parameters are present in the fetched workflow
ParamsPresent ==
    /\ TruthyWorkflow(workflow_data)
    /\ workflow_data.params.kind = "dict"
    /\ TruthyStr(Get(workflow_data.params.d, "outdir"))
    /\ TruthyStr(Get(workflow_data.params.d, "sqs_queue_url"))

\* C9 as stated: at most one send-message invocation in a run; exactly one
\* when outdir and sqs_queue_url are present and every external call (the API
\* request, the CLI and credentials checks) succeeds; and the message sent
\* holds every key of every metadata source with that source's value.
C9_ExactlyOneMessage ==
    /\ Len(sendCalls) <= 1
    /\ (pc = "done" /\ ParamsPresent /\ failure \notin {"fetch", "cli", "credentials"}) =>
          Len(sendCalls) = 1
    /\ Len(sendCalls) = 1 =>
          LET md == sendCalls[1].body.metadata
          IN /\ DOMAIN md = DOMAIN EnvMetadata(env) \cup DOMAIN api_metadata \cup DOMAIN wrroc_metadata
             /\ \A k \in DOMAIN EnvMetadata(env) : md[k] = EnvMetadata(env)[k]
             /\ \A k \in DOMAIN api_metadata : md[k] = api_metadata[k]
             /\ \A k \in DOMAIN wrroc_metadata : md[k] = wrroc_metadata[k]

\* C10: the process exit code is 0 exactly when send-message was invoked and
\* exited with status 0; a missing outdir or queue URL, an unavailable CLI or
\* credentials, and a non-zero send-message status each end the run with 1.
C10_ExitCode ==
    /\ pc # "done" => exitCode = NoExit
    /\ pc = "done" =>
          /\ exitCode \in {0, 1}
          /\ exitCode = 0 <=> (Len(sendCalls) = 1 /\ sendStatus = <<0>>)
          /\ failure \in {"outdir", "queue_url", "cli", "credentials", "send"} => exitCode = 1
          /\ failure = "send" <=> (Len(sendStatus) = 1 /\ sendStatus[1] # 0)
          /\ failure = "none" <=> exitCode = 0

C10_Witness == pc = "done" /\ Len(sendCalls) = 1 /\ sendStatus # <<0>> /\ exitCode = 1

\* extract_wrroc_metadata was called
ExtractionCalled == wrrocDoc # NoDoc \/ downloaded # "none"

\* the call failed: the download failed, the file did not parse to an object,
\* or a lookup in the graph raised
ExtractionFailed ==
    \/ downloaded = "failed"
    \/ /\ wrrocDoc # NoDoc
       /\ \/ wrrocDoc.json # "object"
          \/ wrrocDoc.graphKind = "null"
          \/ ExtractGraph(wrrocDoc.nodes).raised

\* C11: provenance is best-effort. extract_wrroc_metadata is called only when
\* the poller returned True. When the poller timed out, or the extraction
\* failed, the run does not end there: it goes on to build the message and
\* invoke send-message once, and the metadata sent holds no wrroc_ key and
\* holds every environment and API key with its value.
C11_BestEffortProvenance ==
    /\ (ExtractionCalled \/ "s3 cp" \in awsCalls \/ pc = "extract_wrroc") => wrroc_found
    /\ (pc \in {"send", "done"} /\ ((PollReturned /\ ~wrroc_found) \/ ExtractionFailed)) =>
          /\ failure \in {"none", "send"}
          /\ wrroc_metadata = EmptyDict
          /\ pc = "send" => (sendCalls = <<>> /\ ENABLED BuildAndSend)
          /\ pc = "done" =>
                /\ Len(sendCalls) = 1
                /\ LET md == sendCalls[1].body.metadata
                   IN /\ DOMAIN md \cap WrrocKeys = {}
                      /\ DOMAIN md = DOMAIN EnvMetadata(env) \cup DOMAIN api_metadata
                      /\ \A k \in DOMAIN api_metadata : md[k] = api_metadata[k]
                      /\ \A k \in DOMAIN EnvMetadata(env) \ DOMAIN api_metadata :
                            md[k] = EnvMetadata(env)[k]

C11_Witness ==
    /\ pc = "done"
    /\ wrroc_found
    /\ wrrocDoc # NoDoc
    /\ ExtractGraph(wrrocDoc.nodes).raised
    /\ Len(sendCalls) = 1
    /\ DOMAIN api_metadata # {}
    /\ DOMAIN api_metadata \subseteq DOMAIN sendCalls[1].body.metadata

\* extract_wrroc_metadata has returned
ExtractReturned == pc = "send" /\ ExtractionCalled

\* the file read is not a JSON object with a list of objects as "@graph", or
\* one of the fields the function reads has a value of the wrong type
MalformedDoc(doc) ==
    \/ doc.json \in {"invalid", "nonobject"}
    \/ doc.graphKind = "null"
    \/ \E i \in 1..Len(doc.nodes) :
          \/ NotDict(doc.nodes[i])
          \/ doc.nodes[i].author.kind \in {"null", "other"}
          \/ doc.nodes[i].lang.kind \in {"null", "other"}
          \/ IsRunRaises(doc.nodes[i])

\* the file read is {} or has an empty "@graph"
EmptyDocument(doc) == doc.json = "object" /\ doc.graphKind \in {"missing", "list"} /\ doc.nodes = <<>>

\* C12 as stated: extract_wrroc_metadata never raises, and it returns the
\* empty dictionary for every malformed document, for every empty document,
\* and when the download fails.
C12_MalformedYieldsEmpty ==
    /\ pc = "extract_wrroc" => ENABLED ExtractAny
    /\ ExtractReturned =>
          /\ failure = "none"
          /\ (downloaded = "failed" \/ MalformedDoc(wrrocDoc) \/ EmptyDocument(wrrocDoc)) =>
                wrroc_metadata = EmptyDict

\* C12 as amended: extract_wrroc_metadata never raises and returns only
\* wrroc_ keys. It returns the empty dictionary when the download fails, when
\* the file is not valid JSON or not an object, when "@graph" is null, when the
\* document is empty, and when a lookup raises: the first node of the graph is
\* not an object, or the root's "author" is not an object. A malformed part
\* that raises nothing does not empty the result: a "programmingLanguage"
\* that is not an object is skipped, and a node that is not an object is not
\* read when every lookup matches before it; the fields of the entities found
\* are returned then.
C12_ErrorsYieldEmpty ==
    /\ pc = "extract_wrroc" => ENABLED ExtractAny
    /\ ExtractReturned =>
          /\ failure = "none"
          /\ exitCode = NoExit
          /\ DOMAIN wrroc_metadata \subseteq WrrocKeys
          /\ downloaded = "failed" => wrroc_metadata = EmptyDict
          /\ wrrocDoc # NoDoc =>
                LET nodes == wrrocDoc.nodes
                    roots == {i \in 1..Len(nodes) : IdIs("./", nodes[i])}
                    mains == {i \in 1..Len(nodes) : IdIs("main-sqs.nf", nodes[i])}
                IN /\ wrrocDoc.json \in {"invalid", "nonobject"} => wrroc_metadata = EmptyDict
                   /\ wrrocDoc.graphKind = "null" => wrroc_metadata = EmptyDict
                   /\ EmptyDocument(wrrocDoc) => wrroc_metadata = EmptyDict
                   /\ (nodes # <<>> /\ NotDict(nodes[1])) => wrroc_metadata = EmptyDict
                   /\ (\E i \in roots : nodes[i].author.kind \in {"null", "other"}) =>
                         wrroc_metadata = EmptyDict
                   /\ (/\ \A i \in 1..Len(nodes) : ~NotDict(nodes[i]) /\ ~IsRunRaises(nodes[i])
                       /\ \A i \in roots : nodes[i].author.kind \in {"missing", "dict"}
                       /\ \E i \in mains : nodes[i].lang.kind \in {"null", "other"}) =>
                         /\ "wrroc_runtime_platform" \in DOMAIN wrroc_metadata
                         /\ "wrroc_programming_language" \notin DOMAIN wrroc_metadata
                   /\ (/\ roots # {} /\ mains # {}
                       /\ \E i \in 1..Len(nodes) : IsRun(nodes[i])
                       /\ \A i \in 1..Len(nodes) : NotDict(nodes[i]) => i = Len(nodes)
                       /\ \A i \in roots : nodes[i].author.kind = "missing") =>
                         {"wrroc_name", "wrroc_run_id", "wrroc_runtime_platform"} \subseteq DOMAIN wrroc_metadata

C12_Witness ==
    /\ ExtractReturned
    /\ downloaded = "ok"
    /\ Len(wrrocDoc.nodes) >= 2
    /\ NotDict(wrrocDoc.nodes[1])
    /\ wrroc_metadata = EmptyDict
    /\ ~tempFile

\* C13 as stated: the entities are extracted independently of one another.
\* For every graph of objects, each node that yields fields when it is the
\* only node of the graph (its reference to an author left out when that
\* reference is unusable) yields the same fields in the result for the whole
\* graph, whichever other entity is absent or has an unusable reference or field.
C13_EntitiesIndependent ==
    (/\ ExtractReturned
     /\ wrrocDoc.json = "object"
     /\ wrrocDoc.graphKind = "list"
     /\ \A i \in 1..Len(wrrocDoc.nodes) : wrrocDoc.nodes[i].isDict) =>
        \A i \in 1..Len(wrrocDoc.nodes) :
            LET usable == [wrrocDoc.nodes[i] EXCEPT
                              !.author = IF @.kind \in {"dict", "missing"} THEN @ ELSE Missing(EmptyDict)]
                alone == ExtractGraph(<<usable>>)
            IN ~alone.raised =>
                  \A k \in DOMAIN alone.md :
                      k \in DOMAIN wrroc_metadata /\ wrroc_metadata[k] = alone.md[k]

\* C14: for a remote (s3://) path, /tmp/wrroc-metadata.json does not exist
\* once extract_wrroc_metadata has returned, whether the file was there before
\* the call or written by it, and whether the call ended with the fields
\* extracted, with a failed download, or with a parse or lookup error.
C14_TempFileRemoved ==
    /\ []((ExtractReturned /\ StartsWithS3(WrrocPath(outdir))) => ~tempFile)
    /\ [][ (pc = "extract_wrroc" /\ StartsWithS3(WrrocPath(outdir))) =>
             (pc' = "send" /\ ~tempFile' /\ downloaded' \in {"ok", "failed"}) ]_vars

C14_Witness ==
    /\ ExtractReturned
    /\ StartsWithS3(WrrocPath(outdir))
    /\ downloaded = "ok"
    /\ tempWritten
    /\ wrrocDoc.json = "invalid"
    /\ wrroc_metadata = EmptyDict
    /\ ~tempFile

\* the three metadata sources have pairwise disjoint key sets
DisjointSources ==
    /\ DOMAIN mWrroc \cap DOMAIN mApi = {}
    /\ DOMAIN mWrroc \cap DOMAIN EnvMetadata(env) = {}
    /\ DOMAIN mApi \cap DOMAIN EnvMetadata(env) = {}

\* every key of the dictionary src is in md with the value src gives it
Holds(md, src) == \A k \in DOMAIN src : k \in DOMAIN md /\ md[k] = src[k]

\* C15: with pairwise disjoint key sets the merge does not depend on order.
\* The metadata built holds every key of every source with that source's
\* value; built with the API metadata (or the provenance) replaced by {}, it
\* holds the same keys and values of the two other sources and nothing else;
\* and merging the API metadata before the provenance gives the same metadata.
C15_DisjointMergeOrderFree ==
    (pcM = "built" /\ DisjointSources) =>
        LET full == mMessage.metadata
            envMd == EnvMetadata(env)
            noApi == build_sqs_message(env, "/data/out", mWrroc, EmptyDict).metadata
            noWrroc == build_sqs_message(env, "/data/out", EmptyDict, mApi).metadata
        IN /\ Holds(full, envMd) /\ Holds(full, mWrroc) /\ Holds(full, mApi)
           /\ DOMAIN full = DOMAIN envMd \cup DOMAIN mWrroc \cup DOMAIN mApi
           /\ Holds(noApi, envMd) /\ Holds(noApi, mWrroc)
           /\ DOMAIN noApi = DOMAIN envMd \cup DOMAIN mWrroc
           /\ \A k \in DOMAIN noApi : full[k] = noApi[k]
           /\ Holds(noWrroc, envMd) /\ Holds(noWrroc, mApi)
           /\ DOMAIN noWrroc = DOMAIN envMd \cup DOMAIN mApi
           /\ \A k \in DOMAIN noWrroc : full[k] = noWrroc[k]
           /\ full = Update(Update(envMd, mApi), mWrroc)

C15_Witness ==
    /\ pcM = "built"
    /\ DisjointSources
    /\ Cardinality(DOMAIN mWrroc) >= 2
    /\ Cardinality(DOMAIN mApi) >= 2
    /\ DOMAIN mMessage.metadata = DOMAIN EnvMetadata(env) \cup DOMAIN mWrroc \cup DOMAIN mApi

\* the steps of main() that have been passed, from what the run has done
Fetched == ~workflow_data.isNone /\ httpCalls = 1

Validated == outdir \notin {None, ""} /\ queue_url \notin {None, ""}

CliChecked == "--version" \in awsCalls /\ failure # "cli"

CredentialsChecked == "sts get-caller-identity" \in awsCalls /\ failure # "credentials"

\* C19: the steps of main() come in order. Each step is taken only when the
\* steps before it have passed: the inputs are validated after the workflow
\* is fetched, `aws --version` runs after validation, `aws sts
\* get-caller-identity` after the CLI check passed, the poller after the
\* credentials check passed, and send-message after all of them. A run that
\* lacks the workflow data, outdir or sqs_queue_url exits with 1 and has invoked
\* no aws command; a run whose CLI or credentials check failed exits with 1
\* and has neither polled nor sent.
C19_StepsInOrder ==
    /\ Validated => Fetched
    /\ awsCalls # {} => (Fetched /\ Validated /\ "--version" \in awsCalls)
    /\ "sts get-caller-identity" \in awsCalls => CliChecked
    /\ (checks > 0 \/ "s3 ls" \in awsCalls \/ "s3 cp" \in awsCalls) =>
          (CliChecked /\ CredentialsChecked)
    /\ (sendCalls # <<>> \/ "sqs send-message" \in awsCalls) =>
          /\ Fetched /\ Validated /\ CliChecked /\ CredentialsChecked
          /\ PollReturned
          /\ failure \in {"none", "send"}
    /\ failure \in {"fetch", "outdir", "queue_url"} =>
          (pc = "done" /\ exitCode = 1 /\ awsCalls = {} /\ sendCalls = <<>> /\ checks = 0)
    /\ failure \in {"cli", "credentials"} =>
          /\ pc = "done" /\ exitCode = 1
          /\ checks = 0 /\ pollI = 0 /\ sendCalls = <<>>
          /\ awsCalls \subseteq {"--version", "sts get-caller-identity"}

C19_Witness ==
    /\ pc = "done"
    /\ exitCode = 0
    /\ Len(sendCalls) = 1
    /\ awsCalls = {"--version", "sts get-caller-identity", "s3 ls", "s3 cp", "sqs send-message"}
    /\ wrroc_metadata # EmptyDict
    /\ sendCalls[1].queue_url = queue_url

\* ---------------------------------------------------------------------------
\* Properties: setup tool
\* ---------------------------------------------------------------------------

\* the statements of the inline policies whose document has a Statement list
StatementsOf(pols) ==
    UNION { { pols[n].Statement[i] : i \in 1..Len(pols[n].Statement) } :
            n \in {m \in PolicyNames : pols[m].exists /\ pols[m].isList} }

\* the check read every policy of the role
ReadAll(pols, list_ok, got) == list_ok /\ {n \in PolicyNames : pols[n].exists} \subseteq got

\* sqs:SendMessage, or a wildcard covering it, is among the statement's actions
ActionCovers(st) ==
    /\ st.Action.kind \in {"str", "list"}
    /\ \/ InList("sqs:SendMessage", st.Action.v)
       \/ InList("sqs:*", st.Action.v)
       \/ InList("*", st.Action.v)

\* the queue ARN, or a wildcard, is among the statement's resources
ResourceCovers(st, arn) ==
    /\ st.Resource.kind \in {"str", "list"}
    /\ InList(arn, st.Resource.v) \/ InList("*", st.Resource.v)

\* C5 as stated: the check returns true if and only if some statement of an
\* inline policy has an Action covering sqs:SendMessage (the exact string,
\* "sqs:*" or the global "*") and a Resource covering the queue ARN (the exact
\* ARN or "*").
C5_CheckIffCovered ==
    [][ (pcS = "check" /\ ReadAll(policies, listed', fetched')) =>
            (has_permission' <=>
                \E st \in StatementsOf(policies) :
                    ActionCovers(st) /\ ResourceCovers(st, queue_arn)) ]_vars

\* C6: the check is a predicate over the policy documents it reads: a
\* statement with Action "sqs:SendMessage" and Resource the queue ARN makes it
\* true; so does one with Action "sqs:SendMessage" and Resource "*", whatever
\* the ARN; it is false when no statement names the ARN or "*" as a resource;
\* and the check leaves every policy as it was and issues no put-role-policy.
C6_CheckIsPurePredicate ==
    [][ pcS = "check" =>
          /\ policies' = policies
          /\ putCalls' = putCalls
          /\ ReadAll(policies, listed', fetched') =>
                LET sts == StatementsOf(policies)
                    exact == \E st \in sts :
                                st.Action = Str("sqs:SendMessage") /\ st.Resource = Str(queue_arn)
                    wild == \E st \in sts :
                                st.Action = Str("sqs:SendMessage") /\ st.Resource = Str("*")
                    named == \E st \in sts : ResourceCovers(st, queue_arn)
                IN /\ exact => has_permission'
                   /\ wild => has_permission'
                   /\ ~named => ~has_permission' ]_vars

C6_Witness ==
    /\ pcS = "done"
    /\ add_result = "none"
    /\ has_permission
    /\ queue_arn = ArnB
    /\ \E st \in StatementsOf(policies) :
          st.Action = Str("sqs:SendMessage") /\ st.Resource = Str("*")
    /\ ~\E st \in StatementsOf(policies) : InList(ArnB, st.Resource.v)

\* C7: every put-role-policy writes nextflow-policy with the statements the
\* policy had, in their order and unchanged, followed by one more statement:
\* Allow sqs:SendMessage on the queue ARN; nothing else of the document or of
\* the role's other policies changes.
C7_AppendOnly ==
    [][ putCalls' # putCalls =>
          LET old == policies["nextflow-policy"]
              N == Len(old.Statement)
              put == putCalls'[Len(putCalls')]
          IN /\ Len(putCalls') = Len(putCalls) + 1
             /\ SubSeq(putCalls', 1, Len(putCalls)) = putCalls
             /\ put.name = "nextflow-policy"
             /\ old.exists
             /\ Len(put.doc.Statement) = N + 1
             /\ \A i \in 1..N : put.doc.Statement[i] = old.Statement[i]
             /\ put.doc.Statement[N + 1].Effect = "Allow"
             /\ put.doc.Statement[N + 1].Action = Str("sqs:SendMessage")
             /\ put.doc.Statement[N + 1].Resource = Str(queue_arn)
             /\ put.doc.Version = old.Version
             /\ policies' \in {policies, [policies EXCEPT !["nextflow-policy"] = put.doc]} ]_vars

C7_Witness ==
    /\ pcS = "done"
    /\ add_result = "True"
    /\ Len(putCalls) = 1
    /\ Len(putCalls[1].doc.Statement) >= 3
    /\ policies["nextflow-policy"] = putCalls[1].doc

\* C8: when nextflow-policy does not exist on the role, or get-role-policy
\* fails, add_sqs_permission returns False without any put-role-policy: no
\* policy is created and the role's policies stay as they were.
C8_NoPolicyNoWrite ==
    [][ (pcS = "add" /\ (~policies["nextflow-policy"].exists \/ fetched' = {})) =>
          /\ add_result' = "False"
          /\ putCalls' = putCalls
          /\ policies' = policies ]_vars

C8_Witness ==
    /\ pcS = "done"
    /\ add_result = "False"
    /\ ~policies["nextflow-policy"].exists
    /\ putCalls = <<>>

\* ---------------------------------------------------------------------------
\* Properties: setup tool, main()
\* ---------------------------------------------------------------------------

\* the role's policies hold no statement that the check accepts for the queue
Lacks(pols) == ~check_sqs_permission(pols, queue_arn, TRUE, PolicyNames)

\* C16 as stated: with --yes no prompt is issued, whichever of --profile,
\* --catalog and --region is given; a catalog URL or a region that cannot be
\* resolved ends the run with exit code 1; and when the run has ended, every
\* role found that lacked the permission has been handed to
\* add_sqs_permission, without a prompt.
C16_YesNonInteractive ==
    yes =>
        /\ prompted = {}
        /\ failT \in {"catalog", "region"} => exitT = 1
        /\ (pcT = "exit" /\ runs = 1 /\ tower_roles # <<>>) =>
              \A i \in 1..Len(tower_roles) :
                  Lacks(tower_roles[i]) =>
                      (i <= Len(roleLog) /\ ~roleLog[i].has /\ roleLog[i].add # "none")

\* C17 as stated: find_quilt_stack never raises; when list-stacks fails or no
\* stack listed has a QuiltWebHost output that equals the catalog URL after
\* normalization, it returns None and main() exits with code 1, whatever
\* describe-stacks returns for the stacks; and when stacks match, the first
\* of them in listing order is returned.
C17_NoMatchNotFound ==
    pcT # "stack" =>
        LET ss == stacks.summaries
            matching == { i \in 1..Len(ss) :
                            /\ ss[i].named
                            /\ ss[i].describe = "outputs"
                            /\ ss[i].host # None
                            /\ normalize_url(ss[i].host) = normalize_url(catalog_url) }
        IN /\ ~stack_info.raised
           /\ failT # "exception"
           /\ (~stacks.list_ok \/ matching = {}) =>
                 (stack_info = NotFound /\ pcT = "exit" /\ exitT = 1 /\ failT = "stack")
           /\ (stacks.list_ok /\ matching # {}) =>
                 /\ stack_info.found
                 /\ stack_info.index \in matching
                 /\ \A j \in matching : stack_info.index <= j

\* the role's nextflow-policy statements, now and when the tool first ran
StatementsNow(i) ==
    IF pcT = "loop" /\ i = roleI
    THEN policies["nextflow-policy"].Statement
    ELSE iam[i]["nextflow-policy"].Statement

\* C18 as stated: add_sqs_permission is called for a role only when the check
\* returned false and the update was approved (by --yes or at the prompt);
\* after a successful add the role's policies satisfy the check; and over any
\* number of runs the role's nextflow-policy gains at most one statement.
C18_AtMostOneStatement ==
    /\ pcS = "add" => (~has_permission /\ (yes \/ "role" \in prompted))
    /\ add_result = "True" => ~Lacks(policies)
    /\ \A i \in 1..Len(iam) :
          Len(StatementsNow(i)) <= Len(tower_roles[i]["nextflow-policy"].Statement) + 1

====
